---- MODULE Spec2Model ----
(***************************************************************************)
(* PantryPal (src/app.py): the ingredient search handler with its          *)
(* aggregation and fallback search, the session result cache, and the      *)
(* favorites handlers.                                                     *)
(*                                                                         *)
(* Spec     the /ingredients handler of one session, one step per call to  *)
(*          the external recipe API (the API's answer is the step's        *)
(*          nondeterministic input).                                       *)
(* FavSpec  the /favorite/add and /favorite/remove handlers, run by        *)
(*          concurrent request threads against the favorites table.        *)
(***************************************************************************)
EXTENDS Integers, Sequences, FiniteSets, TLC

VARIABLES
    api_key,                 \* app.py:19   TRUE iff SPOONACULAR_API_KEY is set
    session,                 \* flask session: all_recipes, is_fallback; and the history
                             \* of the cached set (origin: the search that produced it)
    pc,                      \* position of the /ingredients handler
    form,                    \* the submitted form of the request in progress
    ingredients_text,        \* ingredients(): the filtered, re-joined text
    ingredients_list,        \* get_recipes/get_fallback_recipes: entries still to query
    all_recipes,             \* aggregation dict, in insertion order
    ingredient_match_count,  \* aggregation dict id -> count
    recipes,                 \* sorted, capped list still to enrich
    recipes_with_info,       \* enriched list built so far
    found,                   \* ingredients(): results of get_recipes / get_fallback_recipes
    page,                    \* ingredients(): recipes and error handed to the template
    hist,                    \* history of the request in progress: its API calls
    favorites,               \* rows of the favorites table
    req                      \* per request thread: the favorites request in progress

searchVars == <<api_key, session, pc, form, ingredients_text, ingredients_list,
                all_recipes, ingredient_match_count, recipes, recipes_with_info,
                found, page, hist>>
favVars == <<favorites, req>>
vars == <<searchVars, favVars>>

-----------------------------------------------------------------------------
(* Bounds of the model *)

\* longest list one per-ingredient or complexSearch response carries, but for LongResponse
MaxResp == 2
\* recipe ids the API may answer with are 1..MaxRecipeId
MaxRecipeId == 3
\* the result cap `num` (30 in the code), scaled to the model's recipe ids
NumCap == 2
\* concurrent request threads of the favorites handlers
MaxProcs == 2
\* largest primary key the favorites table hands out
MaxRowId == 2

-----------------------------------------------------------------------------
(* Text: a str is a sequence of one-character strings *)

SPACE == " "
COMMA == ","
MARKER == "#"

\* str.lower() on one character
LowerChar(c) ==
    CASE c = "E" -> "e"
      [] c = "M" -> "m"
      [] c = "C" -> "c"
      [] OTHER -> c

\* str.lower()
Lower(s) == [i \in 1..Len(s) |-> LowerChar(s[i])]

RECURSIVE LStrip(_)
LStrip(s) == IF s # <<>> /\ Head(s) = SPACE THEN LStrip(Tail(s)) ELSE s

RECURSIVE RStrip(_)
RStrip(s) ==
    IF s # <<>> /\ s[Len(s)] = SPACE THEN RStrip(SubSeq(s, 1, Len(s) - 1)) ELSE s

\* str.strip()
Strip(s) == RStrip(LStrip(s))

\* str.startswith('#')
StartsWithMarker(s) == s # <<>> /\ Head(s) = MARKER

\* str.split(','): "a,,b" -> ["a", "", "b"], "" -> [""]
RECURSIVE SplitFrom(_, _)
SplitFrom(s, cur) ==
    IF s = <<>> THEN <<cur>>
    ELSE IF Head(s) = COMMA THEN <<cur>> \o SplitFrom(Tail(s), <<>>)
    ELSE SplitFrom(Tail(s), Append(cur, Head(s)))

Split(s) == SplitFrom(s, <<>>)

\* ', '.join(list)
RECURSIVE Join(_)
Join(list) ==
    IF list = <<>> THEN <<>>
    ELSE IF Len(list) = 1 THEN list[1]
    ELSE list[1] \o <<COMMA, SPACE>> \o Join(Tail(list))

\* mutant of KeepIngredient: the marker is looked for in the untrimmed entry
KeepIngredientUntrimmed(ing) == Strip(ing) # <<>> /\ ~StartsWithMarker(ing)

\* ingredients(), app.py:430: an entry is kept unless blank or marked with '#'
KeepIngredient(ing) == Strip(ing) # <<>> /\ ~StartsWithMarker(Strip(ing))

\* ingredients(), app.py:430: the list comprehension
RECURSIVE KeptEntries(_)
KeptEntries(list) ==
    IF list = <<>> THEN <<>>
    ELSE (IF KeepIngredient(Head(list)) THEN <<Strip(Head(list))>> ELSE <<>>)
         \o KeptEntries(Tail(list))

\* ingredients(), app.py:430-431
FilterExcluded(text) == Join(KeptEntries(Split(text)))

\* get_recipes(), app.py:148 and get_fallback_recipes(), app.py:268: the comprehension
RECURSIVE NormalizedEntries(_)
NormalizedEntries(list) ==
    IF list = <<>> THEN <<>>
    ELSE (IF Strip(Head(list)) # <<>> THEN <<Lower(Strip(Head(list)))>> ELSE <<>>)
         \o NormalizedEntries(Tail(list))

Normalize(ingredients) == NormalizedEntries(Split(ingredients))

\* the ingredient texts a user submits
Texts ==
    { <<"e">>,
      <<"e", ",", " ", "E">>,
      <<"#", "c">>,
      <<"e", ",", " ", "m", ",", " ", "#", "c">>,
      <<" ", "#", "C", " ", ",", "M">>,
      <<"e", "#", ",", ",", " ">> }

-----------------------------------------------------------------------------
(* The external recipe API: what a call may answer *)

RecipeIds == 1..MaxRecipeId

\* HTTP error statuses raise_for_status() raises on
Statuses == {401, 402, 429, 500}

\* a key the dict does not hold (dict.get gives None)
NoValue == 0 - 1

\* a record of a search response (findByIngredients, complexSearch): the id with the
\* image and the other fields of the search call (likes stands for those the session
\* cache drops); readyInMinutes, cuisines, match_count not set
SearchHit(id) ==
    [id |-> id, image |-> "search", likes |-> "search", readyInMinutes |-> NoValue,
     cuisines |-> {}, match_count |-> NoValue]

Injective(q) == \A i, j \in DOMAIN q : q[i] = q[j] => i = j

\* the lists of recipe ids a search response may carry: each recipe once
ResponseLists ==
    {q \in UNION {[1..k -> RecipeIds] : k \in 0..MaxResp} : Injective(q)}

\* outcomes of requests.get + raise_for_status + json of a search call:
\* a list, an HTTPError with its status, or another exception (timeout, connection)
SearchOutcomes ==
    [kind : {"ok"}, ids : ResponseLists, status : {200}]
    \cup [kind : {"http"}, ids : {<<>>}, status : Statuses]
    \cup [kind : {"exc"}, ids : {<<>>}, status : {0}]

\* a complexSearch response that carries one result more than the `number` asked for
LongResponse == [i \in 1..(NumCap + 1) |-> i]

\* outcomes of the complexSearch call: the API is asked for `num` results, the
\* response is whatever the API sends
ComplexOutcomes ==
    SearchOutcomes \cup [kind : {"ok"}, ids : {LongResponse}, status : {200}]

\* the /information payloads: the fields the search reads. The first passes every
\* filter of Filters, the second fails the dish type, the third the time bound; the
\* last fails the cuisine and carries "readyInMinutes": null
Infos ==
    { [readyInMinutes |-> 20, cuisines |-> {"italian"}, dishTypes |-> {"dessert"}],
      [readyInMinutes |-> 20, cuisines |-> {"italian"}, dishTypes |-> {}],
      [readyInMinutes |-> 45, cuisines |-> {"italian"}, dishTypes |-> {"dessert"}],
      [readyInMinutes |-> NoValue, cuisines |-> {},     dishTypes |-> {"dessert"}] }

NoInfo == [readyInMinutes |-> NoValue, cuisines |-> {}, dishTypes |-> {}]

\* outcomes of a detail fetch: the payload, or any exception
DetailOutcomes ==
    [kind : {"ok"}, info : Infos] \cup [kind : {"fail"}, info : {NoInfo}]

\* the form's choices (max_time, cuisine: app.py:112-138; search_type, dish_type: request.form)
SearchTypes == {"AND", "OR"}

\* the filters a search is submitted with: none, a cuisine, a dish type, or a time
\* bound with a cuisine
Filters ==
    { [max_time |-> "",   cuisine |-> "",        dish_type |-> ""],
      [max_time |-> "",   cuisine |-> "italian", dish_type |-> ""],
      [max_time |-> "",   cuisine |-> "",        dish_type |-> "dessert"],
      [max_time |-> "30", cuisine |-> "italian", dish_type |-> ""] }

\* int(max_time)
IntOf(str) ==
    CASE str = "15" -> 15
      [] str = "30" -> 30
      [] str = "60" -> 60
      [] str = "120" -> 120

-----------------------------------------------------------------------------
(* The aggregation of get_recipes (OR) and get_fallback_recipes *)

NoCounts == [i \in {} |-> 0]

IdsOf(list) == {list[i].id : i \in DOMAIN list}

\* ingredient_match_count.get(r.get("id", 0), 0)
MatchCountOf(counts, r) == IF r.id \in DOMAIN counts THEN counts[r.id] ELSE 0

\* mutant of AddRecipe: the recipe is stored without the `not in all_recipes` test
AddRecipeUnchecked(agg, id) ==
    IF id = 0 THEN agg
    ELSE [all_recipes |-> Append(agg.all_recipes, SearchHit(id)),
          ingredient_match_count |->
              (id :> (MatchCountOf(agg.ingredient_match_count, SearchHit(id)) + 1))
              @@ agg.ingredient_match_count]

\* app.py:174-179 and 288-293: one recipe of a response
AddRecipe(agg, id) ==
    IF id = 0 THEN agg
    ELSE LET fresh == id \notin IdsOf(agg.all_recipes)
             recs  == IF fresh THEN Append(agg.all_recipes, SearchHit(id))
                      ELSE agg.all_recipes
             cnt   == IF fresh THEN (id :> 0) @@ agg.ingredient_match_count
                      ELSE agg.ingredient_match_count
         IN  [all_recipes |-> recs,
              ingredient_match_count |-> [cnt EXCEPT ![id] = @ + 1]]

\* app.py:173-179 and 287-293: the loop over one response
RECURSIVE AddRecipes(_, _)
AddRecipes(agg, ids) ==
    IF ids = <<>> THEN agg ELSE AddRecipes(AddRecipe(agg, Head(ids)), Tail(ids))

\* app.py:158-181 and 273-295: one turn of the loop over ingredients_list
AfterQuery(agg, outcome) ==
    IF outcome.kind = "ok" THEN AddRecipes(agg, outcome.ids) ELSE agg

\* one insertion of a stable descending sort: x goes before the first smaller key
RECURSIVE InsertByCount(_, _, _)
InsertByCount(sorted, x, counts) ==
    IF sorted = <<>> THEN <<x>>
    ELSE IF MatchCountOf(counts, Head(sorted)) < MatchCountOf(counts, x)
         THEN <<x>> \o sorted
         ELSE <<Head(sorted)>> \o InsertByCount(Tail(sorted), x, counts)

RECURSIVE SortInto(_, _, _)
SortInto(sorted, rest, counts) ==
    IF rest = <<>> THEN sorted
    ELSE SortInto(InsertByCount(sorted, Head(rest), counts), Tail(rest), counts)

\* mutant of SortByMatchCount: the sort is left out
Unsorted(list, counts) == list

\* app.py:185-186 and 298-299: list.sort(key=match count, reverse=True), a stable sort
SortByMatchCount(list, counts) == SortInto(<<>>, list, counts)

\* app.py:187 and 300: recipes[:num]
Cap(list, num) == SubSeq(list, 1, IF Len(list) < num THEN Len(list) ELSE num)

\* app.py:185-187 and 298-300
Ranked(agg, num) ==
    Cap(SortByMatchCount(agg.all_recipes, agg.ingredient_match_count), num)

\* app.py:203: `None > int(max_time)` raises TypeError
FilterRaises(info, max_time) == max_time # "" /\ info.readyInMinutes = NoValue

\* app.py:203-208: the post-hoc filters of the OR search
FilteredOut(info, max_time, cuisine, dish_type) ==
    \/ max_time # "" /\ info.readyInMinutes > IntOf(max_time)
    \/ cuisine # "" /\ cuisine \notin info.cuisines
    \/ dish_type # "" /\ dish_type \notin info.dishTypes

\* app.py:192-211: one turn of the OR enrichment loop; what is appended
\* (an exception of the filters is caught at 209-210 as one of the fetch is, after
\* the fields were set at 198-200, and the recipe is appended)
EnrichOr(recipe, outcome, max_time, cuisine, dish_type) ==
    LET enriched == [recipe EXCEPT !.readyInMinutes = outcome.info.readyInMinutes,
                                   !.cuisines = outcome.info.cuisines,
                                   !.image = "info"]
    IN  IF outcome.kind = "ok"
        THEN IF FilterRaises(outcome.info, max_time) THEN <<enriched>>
             ELSE IF FilteredOut(outcome.info, max_time, cuisine, dish_type) THEN <<>>
             ELSE <<enriched>>
        ELSE <<recipe>>

\* app.py:243-254: one turn of the AND enrichment loop
EnrichAnd(recipe, outcome) ==
    IF outcome.kind = "ok"
    THEN << [recipe EXCEPT !.readyInMinutes = outcome.info.readyInMinutes,
                           !.cuisines = outcome.info.cuisines] >>
    ELSE <<recipe>>

\* app.py:305-317: one turn of the fallback enrichment loop
EnrichFallback(recipe, outcome, counts) ==
    IF outcome.kind = "ok"
    THEN << [recipe EXCEPT !.readyInMinutes = outcome.info.readyInMinutes,
                           !.cuisines = outcome.info.cuisines,
                           !.image = "info",
                           !.match_count = MatchCountOf(counts, recipe)] >>
    ELSE <<>>

-----------------------------------------------------------------------------
(* The /ingredients handler *)

NoForm == [ingredients |-> <<>>, max_time |-> "", cuisine |-> "",
           search_type |-> "", dish_type |-> ""]

\* found.primary: "pending", "returned" (get_recipes returned all_recipes) or "raised";
\* found.fallback: get_fallback_recipes was called and returned fallback_recipes
NoFound == [primary |-> "pending", all_recipes |-> <<>>,
            fallback |-> FALSE, fallback_recipes |-> <<>>]

NoError == [text |-> "", code |-> 0]

\* recipes = None, error = None (app.py:417-418)
NoPage == [listed |-> FALSE, recipes |-> <<>>, error |-> NoError]

\* app.py:334-345: the reduced record the session keeps
Projection(r) ==
    [id |-> r.id, image |-> r.image, readyInMinutes |-> r.readyInMinutes,
     cuisines |-> r.cuisines, match_count |-> r.match_count]

\* app.py:330-348: store_recipes_in_session
StoreRecipes(sess, list) ==
    [sess EXCEPT !.cached = TRUE,
                 !.all_recipes = [i \in 1..Len(list) |-> Projection(list[i])]]

\* mutant of PopAllRecipes: the cached set is left in the session
KeepAllRecipes(sess) == sess

\* session.pop("all_recipes", None)
PopAllRecipes(sess) ==
    [sess EXCEPT !.cached = FALSE, !.all_recipes = <<>>, !.origin = "none"]

\* mutant of PopIsFallback: the flag is left as it is
KeepIsFallback(sess) == sess

\* app.py:471: session.pop("is_fallback", None)
PopIsFallback(sess) == [sess EXCEPT !.is_fallback = FALSE]

\* app.py:474-482: the message for an HTTPError of get_recipes
HttpErrorMessage(status_code) ==
    IF status_code = 402 THEN [text |-> "API quota exceeded", code |-> 0]
    ELSE IF status_code = 401 THEN [text |-> "API key is invalid", code |-> 0]
    ELSE IF status_code = 429 THEN [text |-> "Too many requests", code |-> 0]
    ELSE [text |-> "Error from API", code |-> status_code]

\* app.py:145, 484: the message for the RuntimeError of a missing API key
ConfigError == [text |-> "Something went wrong: API key not set", code |-> 0]

\* app.py:258-259, 484: the message for any other exception of the complexSearch call
FetchError == [text |-> "Something went wrong: Error fetching recipes", code |-> 0]

\* mutant of KeyMissing: the key is never looked at
KeyMissingNever == FALSE

\* app.py:144 and 264: `if not api_key`
KeyMissing == ~api_key

\* hist.queries        the ingredients parameter of every search call sent
\* hist.search_failed  status of the first HTTPError of a search call of get_recipes
\* hist.matched        per recipe id, the positions in the ingredient list of the
\*                     queries of the running aggregation that returned it
\* hist.detail_failed  ids whose detail fetch failed in get_recipes
\* hist.fb_detail_failed  the same in get_fallback_recipes
\* hist.fetches        the number of detail fetches issued by the running call of
\*                     get_recipes or get_fallback_recipes
\* hist.dish_missed    ids whose payload, fetched in the OR search, lacks the
\*                     requested dish type
NoHist == [queries |-> {}, search_failed |-> 0, matched |-> [id \in RecipeIds |-> {}],
           detail_failed |-> {}, fb_detail_failed |-> {}, fetches |-> 0,
           dish_missed |-> {}]

\* hist when get_fallback_recipes makes its first call: what is kept per call of a
\* search function starts afresh
NextCall(h) == [h EXCEPT !.matched = NoHist.matched, !.fetches = 0, !.dish_missed = {}]

\* position in the normalized ingredient list of the per-ingredient query now made
Position == Len(Normalize(ingredients_text)) - Len(ingredients_list) + 1

\* hist after a search call with parameter q; pos = 0 for the complexSearch call
Queried(h, phase, q, pos, outcome) ==
    [h EXCEPT
       !.queries = @ \cup {q},
       !.search_failed = IF phase = "primary" /\ outcome.kind = "http" /\ @ = 0
                         THEN outcome.status ELSE @,
       !.matched = [id \in RecipeIds |->
                      IF /\ pos > 0
                         /\ outcome.kind = "ok"
                         /\ \E i \in DOMAIN outcome.ids : outcome.ids[i] = id
                      THEN @[id] \cup {pos} ELSE @[id]]]

\* hist after a detail fetch
Fetched(h, phase, id, outcome) ==
    LET failed == outcome.kind # "ok"
        missed == /\ ~failed
                  /\ form.search_type = "OR"
                  /\ form.dish_type # ""
                  /\ form.dish_type \notin outcome.info.dishTypes
    IN  IF phase = "primary"
        THEN [h EXCEPT !.fetches = @ + 1,
                       !.detail_failed = IF failed THEN @ \cup {id} ELSE @,
                       !.dish_missed = IF missed THEN @ \cup {id} ELSE @]
        ELSE [h EXCEPT !.fetches = @ + 1,
                       !.fb_detail_failed = IF failed THEN @ \cup {id} ELSE @]

\* the handler moves on: every variable a step of it may set
Goto(p, sess, list, agg, rs, rwi, fnd, pg) ==
    /\ pc' = p
    /\ session' = sess
    /\ ingredients_list' = list
    /\ all_recipes' = agg.all_recipes
    /\ ingredient_match_count' = agg.ingredient_match_count
    /\ recipes' = rs
    /\ recipes_with_info' = rwi
    /\ found' = fnd
    /\ page' = pg

NoAgg == [all_recipes |-> <<>>, ingredient_match_count |-> NoCounts]

\* the handler reaches render_template (app.py:506-509)
Finish(sess, fnd, pg) == Goto("done", sess, <<>>, NoAgg, <<>>, <<>>, fnd, pg)

\* app.py:473-484: get_recipes raised
HandlerError(sess, fnd, error) ==
    Finish(sess, [fnd EXCEPT !.primary = "raised"],
           [listed |-> FALSE, recipes |-> <<>>, error |-> error])

\* app.py:458-466: get_fallback_recipes returned
AfterFallback(sess, fnd, fallback_recipes) ==
    LET f == [fnd EXCEPT !.fallback = TRUE, !.fallback_recipes = fallback_recipes]
    IN  IF fallback_recipes # <<>>
        THEN Finish([StoreRecipes(sess, fallback_recipes) EXCEPT !.is_fallback = TRUE,
                                                                 !.origin = "fallback"], f,
                    [listed |-> TRUE, recipes |-> fallback_recipes,
                     error |-> [text |-> "No exact matches found", code |-> 0]])
        ELSE Finish(PopAllRecipes(sess), f,
                    [listed |-> FALSE, recipes |-> <<>>,
                     error |-> [text |-> "No recipes found", code |-> 0]])

\* app.py:298-304 and 318: the aggregation of get_fallback_recipes is complete
AfterFallbackQueries(sess, fnd, agg) ==
    IF Ranked(agg, NumCap) = <<>> THEN AfterFallback(sess, fnd, <<>>)
    ELSE Goto("fb_detail", sess, <<>>, agg, Ranked(agg, NumCap), <<>>, fnd, page)

\* app.py:457, 262-273: get_fallback_recipes is called
StartFallback(sess, fnd) ==
    IF KeyMissing THEN AfterFallback(sess, fnd, <<>>)
    ELSE IF Normalize(ingredients_text') = <<>> THEN AfterFallbackQueries(sess, fnd, NoAgg)
    ELSE Goto("fb_query", sess, Normalize(ingredients_text'), NoAgg, <<>>, <<>>, fnd, page)

\* mutant of NoResults: a single result counts as none
NoResultsOrOne(result) == Len(result) < 2

\* app.py:454: `if not all_recipes`
NoResults(result) == result = <<>>

\* app.py:454-472: get_recipes returned
AfterPrimary(sess, fnd, result) ==
    LET f == [fnd EXCEPT !.primary = "returned", !.all_recipes = result]
    IN  IF NoResults(result) THEN StartFallback(sess, f)
        ELSE Finish(PopIsFallback([StoreRecipes(sess, result) EXCEPT !.origin = "primary"]),
                    f,
                    [listed |-> TRUE, recipes |-> result, error |-> NoError])

\* app.py:185-191, 212: the aggregation of the OR search is complete
AfterOrQueries(sess, fnd, agg) ==
    IF Ranked(agg, NumCap) = <<>> THEN AfterPrimary(sess, fnd, <<>>)
    ELSE Goto("or_detail", sess, <<>>, agg, Ranked(agg, NumCap), <<>>, fnd, page)

\* app.py:142-158, 215-233: get_recipes is called
StartPrimary(sess, search_type) ==
    IF KeyMissing THEN HandlerError(sess, NoFound, ConfigError)
    ELSE IF search_type = "OR"
    THEN IF Normalize(ingredients_text') = <<>> THEN AfterOrQueries(sess, NoFound, NoAgg)
         ELSE Goto("or_query", sess, Normalize(ingredients_text'), NoAgg, <<>>, <<>>,
                   NoFound, NoPage)
    ELSE Goto("and_query", sess, <<>>, NoAgg, <<>>, <<>>, NoFound, NoPage)

\* form.validate_on_submit(): DataRequired on the ingredients field
ValidForm(text) == Strip(text) # <<>>

\* app.py:423-453: POST /ingredients with a valid form, up to the first API call
\* (low_ingredient only adds two parameters to the complexSearch call and is left out)
Submit(text, search_type, max_time, cuisine, dish_type) ==
    /\ pc = "idle"
    /\ ValidForm(text)
    /\ form' = [ingredients |-> text, max_time |-> max_time, cuisine |-> cuisine,
                search_type |-> search_type, dish_type |-> dish_type]
    /\ ingredients_text' = FilterExcluded(text)
    /\ hist' = NoHist
    /\ StartPrimary(PopAllRecipes(session), search_type)
    /\ UNCHANGED <<api_key, favVars>>

\* app.py:158-181: one findByIngredients call of the OR search
OrQuery(outcome) ==
    /\ pc = "or_query"
    /\ UNCHANGED <<api_key, form, ingredients_text, favVars>>
    /\ hist' = Queried(hist, "primary", Head(ingredients_list), Position, outcome)
    /\ LET agg == AfterQuery([all_recipes |-> all_recipes,
                              ingredient_match_count |-> ingredient_match_count],
                             outcome)
       IN  IF Tail(ingredients_list) = <<>> THEN AfterOrQueries(session, found, agg)
           ELSE Goto("or_query", session, Tail(ingredients_list), agg, <<>>, <<>>,
                     found, page)

\* app.py:191-212: one detail fetch of the OR search
OrDetail(outcome) ==
    /\ pc = "or_detail"
    /\ UNCHANGED <<api_key, form, ingredients_text, favVars>>
    /\ hist' = Fetched(hist, "primary", Head(recipes).id, outcome)
    /\ LET rwi == recipes_with_info \o EnrichOr(Head(recipes), outcome, form.max_time,
                                                form.cuisine, form.dish_type)
       IN  IF Tail(recipes) = <<>> THEN AfterPrimary(session, found, rwi)
           ELSE Goto("or_detail", session, <<>>,
                     [all_recipes |-> all_recipes,
                      ingredient_match_count |-> ingredient_match_count],
                     Tail(recipes), rwi, found, page)

\* app.py:215-242, 256-259, 473-484: the complexSearch call of the AND search
AndQuery(outcome) ==
    /\ pc = "and_query"
    /\ UNCHANGED <<api_key, form, ingredients_text, favVars>>
    /\ hist' = Queried(hist, "primary", ingredients_text, 0, outcome)
    /\ IF outcome.kind = "http"
       THEN HandlerError(session, found, HttpErrorMessage(outcome.status))
       ELSE IF outcome.kind = "exc"
       THEN HandlerError(session, found, FetchError)
       ELSE IF outcome.ids = <<>> THEN AfterPrimary(session, found, <<>>)
       ELSE Goto("and_detail", session, <<>>, NoAgg,
                 [i \in 1..Len(outcome.ids) |-> SearchHit(outcome.ids[i])], <<>>,
                 found, page)

\* app.py:242-255: one detail fetch of the AND search
AndDetail(outcome) ==
    /\ pc = "and_detail"
    /\ UNCHANGED <<api_key, form, ingredients_text, favVars>>
    /\ hist' = Fetched(hist, "primary", Head(recipes).id, outcome)
    /\ LET rwi == recipes_with_info \o EnrichAnd(Head(recipes), outcome)
       IN  IF Tail(recipes) = <<>> THEN AfterPrimary(session, found, rwi)
           ELSE Goto("and_detail", session, <<>>, NoAgg, Tail(recipes), rwi, found, page)

\* app.py:273-295: one findByIngredients call of the fallback search
FallbackQuery(outcome) ==
    /\ pc = "fb_query"
    /\ UNCHANGED <<api_key, form, ingredients_text, favVars>>
    /\ hist' = Queried(IF Position = 1 THEN NextCall(hist) ELSE hist,
                        "fallback", Head(ingredients_list), Position, outcome)
    /\ LET agg == AfterQuery([all_recipes |-> all_recipes,
                              ingredient_match_count |-> ingredient_match_count],
                             outcome)
       IN  IF Tail(ingredients_list) = <<>> THEN AfterFallbackQueries(session, found, agg)
           ELSE Goto("fb_query", session, Tail(ingredients_list), agg, <<>>, <<>>,
                     found, page)

\* app.py:304-318: one detail fetch of the fallback search
FallbackDetail(outcome) ==
    /\ pc = "fb_detail"
    /\ UNCHANGED <<api_key, form, ingredients_text, favVars>>
    /\ hist' = Fetched(hist, "fallback", Head(recipes).id, outcome)
    /\ LET rwi == recipes_with_info
                  \o EnrichFallback(Head(recipes), outcome, ingredient_match_count)
       IN  IF Tail(recipes) = <<>> THEN AfterFallback(session, found, rwi)
           ELSE Goto("fb_detail", session, <<>>,
                     [all_recipes |-> all_recipes,
                      ingredient_match_count |-> ingredient_match_count],
                     Tail(recipes), rwi, found, page)

\* app.py:413-419, 488-504: GET /ingredients (back to the results)
BackToResults ==
    /\ pc = "idle"
    /\ form' = NoForm
    /\ ingredients_text' = <<>>
    /\ hist' = NoHist
    /\ IF session.cached
       THEN IF Len(session.all_recipes) > 0
            THEN Finish(session, NoFound,
                        [listed |-> TRUE, recipes |-> session.all_recipes,
                         error |-> IF session.is_fallback
                                   THEN [text |-> "Showing recipes that share", code |-> 0]
                                   ELSE NoError])
            ELSE Finish(PopAllRecipes(session), NoFound, NoPage)
       ELSE Finish(session, NoFound, NoPage)
    /\ UNCHANGED <<api_key, favVars>>

\* app.py:509: the response is rendered and the request ends
Render ==
    /\ pc = "done"
    /\ pc' = "idle"
    /\ form' = NoForm
    /\ ingredients_text' = <<>>
    /\ found' = NoFound
    /\ page' = NoPage
    /\ hist' = NoHist
    /\ UNCHANGED <<api_key, session, ingredients_list, all_recipes,
                   ingredient_match_count, recipes, recipes_with_info, favVars>>

NoSession == [cached |-> FALSE, all_recipes |-> <<>>, is_fallback |-> FALSE,
              origin |-> "none"]

SearchInit ==
    /\ api_key \in BOOLEAN
    /\ session = NoSession
    /\ pc = "idle"
    /\ form = NoForm
    /\ ingredients_text = <<>>
    /\ ingredients_list = <<>>
    /\ all_recipes = <<>>
    /\ ingredient_match_count = NoCounts
    /\ recipes = <<>>
    /\ recipes_with_info = <<>>
    /\ found = NoFound
    /\ page = NoPage
    /\ hist = NoHist

-----------------------------------------------------------------------------
(* The favorites handlers, one request thread per element of Procs *)

Procs == 1..MaxProcs

\* the requests made: <<current_user.id, recipe_id>> of the favorite routes
FavRequests == {<<1, 1>>, <<1, 2>>, <<2, 1>>}

\* the /information payloads add_favorite reads: with and without title and image
Payloads ==
    { ("title" :> "Pasta") @@ ("image" :> "pasta.jpg"),
      [k \in {} |-> ""] }

\* dict.get(key, default)
Get(dict, key, default) == IF key \in DOMAIN dict THEN dict[key] ELSE default

\* outcomes of requests.get + raise_for_status + json in add_favorite
FetchOutcomes ==
    [kind : {"ok"}, data : Payloads] \cup [kind : {"fail"}, data : {[k \in {} |-> ""]}]

NoResponse == [status |-> 0, success |-> FALSE, message |-> ""]

\* a request thread: its route (op) and where it stands (at); while the request runs,
\* its arguments and the row its query found; once it has returned, whether it called
\* the API and its response
NoRequest == [op |-> "none", at |-> "idle", user_id |-> 0, recipe_id |-> 0,
              row |-> 0, called |-> FALSE, response |-> NoResponse]

\* the request of route op has returned response
Returned(op, called, response) ==
    [NoRequest EXCEPT !.op = op, !.called = called, !.response = response]

\* mutant of ExistingFavorites: the two filter arguments are swapped
ExistingFavoritesSwapped(user_id, recipe_id) ==
    {f \in favorites : f.user_id = recipe_id /\ f.recipe_id = user_id}

\* app.py:612: db.query(Favorite).filter_by(user_id=..., recipe_id=...)
ExistingFavorites(user_id, recipe_id) ==
    {f \in favorites : f.user_id = user_id /\ f.recipe_id = recipe_id}

\* mutant of MatchingFavorites: the query leaves out the user
MatchingFavoritesAnyUser(user_id, recipe_id) ==
    {f \in favorites : f.recipe_id = recipe_id}

\* app.py:644: db.query(Favorite).filter_by(user_id=..., recipe_id=...)
MatchingFavorites(user_id, recipe_id) ==
    {f \in favorites : f.user_id = user_id /\ f.recipe_id = recipe_id}

\* Favorite.id, an INTEGER PRIMARY KEY: one more than the largest id in the table
NextId ==
    IF favorites = {} THEN 1
    ELSE 1 + CHOOSE m \in {f.id : f \in favorites} : \A f \in favorites : f.id <= m

\* mutant of NewFavorite: the row is written without the fetched fields
NewFavoriteUntitled(user_id, recipe_id, recipe_data) ==
    [id |-> NextId, user_id |-> user_id, recipe_id |-> recipe_id,
     recipe_title |-> "Unknown", recipe_image |-> ""]

\* app.py:623-628
NewFavorite(user_id, recipe_id, recipe_data) ==
    [id |-> NextId, user_id |-> user_id, recipe_id |-> recipe_id,
     recipe_title |-> Get(recipe_data, "title", "Unknown"),
     recipe_image |-> Get(recipe_data, "image", "")]

\* app.py:605-619: POST /favorite/add/<recipe_id>, up to the API call
AddFavorite(p, user_id, recipe_id) ==
    /\ req[p].at = "idle"
    /\ IF ExistingFavorites(user_id, recipe_id) # {}
       THEN req' = [req EXCEPT ![p] =
                      Returned("add", FALSE, [status |-> 400, success |-> FALSE,
                                              message |-> "Already in favorites"])]
       ELSE req' = [req EXCEPT ![p] =
                      [NoRequest EXCEPT !.op = "add", !.at = "fetch",
                                        !.user_id = user_id, !.recipe_id = recipe_id]]
    /\ UNCHANGED <<favorites, searchVars>>

\* app.py:619-635: the API call of add_favorite answers
AddFetched(p, outcome) ==
    /\ req[p].at = "fetch"
    /\ IF outcome.kind = "ok"
       THEN /\ NextId <= MaxRowId
            /\ favorites' = favorites \cup
                              {NewFavorite(req[p].user_id, req[p].recipe_id, outcome.data)}
            /\ req' = [req EXCEPT ![p] =
                         Returned("add", TRUE, [status |-> 200, success |-> TRUE,
                                                message |-> "Added to favorites"])]
       ELSE /\ favorites' = favorites
            /\ req' = [req EXCEPT ![p] =
                         Returned("add", TRUE, [status |-> 500, success |-> FALSE,
                                                message |-> "error"])]
    /\ UNCHANGED searchVars

\* app.py:638-650: POST /favorite/remove/<recipe_id>, the query and its else branch
RemoveFavorite(p, user_id, recipe_id) ==
    /\ req[p].at = "idle"
    /\ IF MatchingFavorites(user_id, recipe_id) # {}
       THEN \E favorite \in MatchingFavorites(user_id, recipe_id) :
              req' = [req EXCEPT ![p] =
                        [NoRequest EXCEPT !.op = "remove", !.at = "delete",
                                          !.user_id = user_id, !.recipe_id = recipe_id,
                                          !.row = favorite.id]]
       ELSE req' = [req EXCEPT ![p] =
                      Returned("remove", FALSE, [status |-> 404, success |-> FALSE,
                                                 message |-> "Not in favorites"])]
    /\ UNCHANGED <<favorites, searchVars>>

\* app.py:646-648: db.delete(favorite); db.commit()
RemoveDeleted(p) ==
    /\ req[p].at = "delete"
    /\ favorites' = {f \in favorites : f.id # req[p].row}
    /\ req' = [req EXCEPT ![p] =
                 Returned("remove", FALSE, [status |-> 200, success |-> TRUE,
                                            message |-> "Removed from favorites"])]
    /\ UNCHANGED searchVars

FavInit ==
    /\ favorites = {}
    /\ req = [p \in Procs |-> NoRequest]

Init == SearchInit /\ FavInit

\* the favorites handlers do not read the search state
FavOnlyInit == SearchInit /\ api_key /\ FavInit

Next ==
    \/ \E text \in Texts, search_type \in SearchTypes, f \in Filters :
            Submit(text, search_type, f.max_time, f.cuisine, f.dish_type)
    \/ \E outcome \in SearchOutcomes : OrQuery(outcome)
    \/ \E outcome \in DetailOutcomes : OrDetail(outcome)
    \/ \E outcome \in ComplexOutcomes : AndQuery(outcome)
    \/ \E outcome \in DetailOutcomes : AndDetail(outcome)
    \/ \E outcome \in SearchOutcomes : FallbackQuery(outcome)
    \/ \E outcome \in DetailOutcomes : FallbackDetail(outcome)
    \/ BackToResults
    \/ Render

Spec == Init /\ [][Next]_vars

FavNext ==
    \/ \E p \in Procs, r \in FavRequests : AddFavorite(p, r[1], r[2])
    \/ \E p \in Procs, outcome \in FetchOutcomes : AddFetched(p, outcome)
    \/ \E p \in Procs, r \in FavRequests : RemoveFavorite(p, r[1], r[2])
    \/ \E p \in Procs : RemoveDeleted(p)

FavSpec == FavOnlyInit /\ [][FavNext]_vars

-----------------------------------------------------------------------------
(* Favorites: C1, C2, C3, C16 (under FavSpec) *)

\* the favorites relation holds the pair
HasFavorite(user_id, recipe_id) ==
    \E f \in favorites : f.user_id = user_id /\ f.recipe_id = recipe_id

\* C1: in every reachable state, under every interleaving of add and remove requests,
\* the favorites relation holds at most one row per (user, recipe id) pair
FavoritesUnique ==
    \A f, g \in favorites :
        f.user_id = g.user_id /\ f.recipe_id = g.recipe_id => f = g

\* C2: an add request for a pair that is in the relation returns the rejection
\* "Already in favorites", calls the API not at all and leaves the relation unchanged
AddExistingRejected ==
    [][\A p \in Procs, r \in FavRequests :
          AddFavorite(p, r[1], r[2]) /\ HasFavorite(r[1], r[2])
          => /\ req'[p].at = "idle"
             /\ req'[p].response = [status |-> 400, success |-> FALSE,
                                    message |-> "Already in favorites"]
             /\ ~req'[p].called
             /\ favorites' = favorites]_vars

\* an add request was rejected while its pair was in the relation
AddExistingWitness ==
    \E p \in Procs :
        /\ req[p].op = "add"
        /\ req[p].response.message = "Already in favorites"
        /\ favorites # {}

\* C3: a remove request for a pair that is not in the relation returns the not-found
\* signal (404, neither the success nor the generic error response) and no row is
\* added, deleted or changed
RemoveAbsentNotFound ==
    [][\A p \in Procs, r \in FavRequests :
          RemoveFavorite(p, r[1], r[2]) /\ ~HasFavorite(r[1], r[2])
          => /\ req'[p].at = "idle"
             /\ req'[p].response = [status |-> 404, success |-> FALSE,
                                    message |-> "Not in favorites"]
             /\ req'[p].response.status \notin {200, 500}
             /\ favorites' = favorites]_vars

\* a remove request was answered not-found while other rows were in the relation
RemoveAbsentWitness ==
    \E p \in Procs :
        /\ req[p].op = "remove"
        /\ req[p].response.message = "Not in favorites"
        /\ favorites # {}

\* C16: when the detail call of an add request fails, the request ends with an error
\* response and the relation is unchanged; a row is created only by an add request
\* whose call has succeeded, and then exactly one row, of the request's pair, with the
\* fetched title and image
AddOnlyAfterFetch ==
    [][/\ \A p \in Procs, outcome \in FetchOutcomes :
             AddFetched(p, outcome) =>
                 IF outcome.kind = "fail"
                 THEN /\ favorites' = favorites
                      /\ req'[p].at = "idle"
                      /\ req'[p].response.status = 500
                      /\ ~req'[p].response.success
                 ELSE /\ Cardinality(favorites' \ favorites) = 1
                      /\ favorites \subseteq favorites'
                      /\ \A f \in favorites' \ favorites :
                             /\ f.user_id = req[p].user_id
                             /\ f.recipe_id = req[p].recipe_id
                             /\ f.recipe_title =
                                   (IF "title" \in DOMAIN outcome.data
                                    THEN outcome.data["title"] ELSE "Unknown")
                             /\ f.recipe_image =
                                   (IF "image" \in DOMAIN outcome.data
                                    THEN outcome.data["image"] ELSE "")
                      /\ req'[p].response.success
       /\ favorites' \ favorites # {} =>
             \E p \in Procs :
                 /\ req[p].op = "add" /\ req[p].at = "fetch"
                 /\ req'[p].called /\ req'[p].response.success]_vars

\* an add request ended with the error response after its call had failed, and another
\* left a row with the fetched title
AddOnlyAfterFetchWitness ==
    /\ \E p \in Procs :
           /\ req[p].op = "add"
           /\ req[p].called
           /\ req[p].response.status = 500
    /\ \E f \in favorites : f.recipe_title = "Pasta" /\ f.recipe_image = "pasta.jpg"

-----------------------------------------------------------------------------
(* Search: C4 .. C10 (under Spec) *)

PrimaryReturnedEmpty == found.primary = "returned" /\ found.all_recipes = <<>>

\* C4: the fallback search runs if and only if the primary search returned an empty
\* list; never when it returned a recipe or raised
FallbackIffPrimaryEmpty ==
    /\ pc \in {"fb_query", "fb_detail"} \/ found.fallback => PrimaryReturnedEmpty
    /\ pc = "done" /\ form.search_type # "" => (found.fallback <=> PrimaryReturnedEmpty)

\* a search ended with fallback results
FallbackWitness ==
    /\ pc = "done"
    /\ found.fallback
    /\ found.fallback_recipes # <<>>
    /\ PrimaryReturnedEmpty

\* the recipe id is in the list, with the fields of the search call only
KeptAsFound(id, list) == \E i \in DOMAIN list : list[i] = SearchHit(id)

\* C5: in every search path a recipe whose detail fetch failed is in the returned
\* list with the fields of the search call
DetailFailureKeepsRecipe ==
    pc = "done" =>
        /\ \A id \in hist.detail_failed :
               found.primary = "returned" /\ KeptAsFound(id, found.all_recipes)
        /\ \A id \in hist.fb_detail_failed :
               found.fallback /\ KeptAsFound(id, found.fallback_recipes)

\* C6: when a search call of get_recipes failed with an HTTP error, the request ends
\* with the error of that failure's category
SearchHttpErrorReported ==
    pc = "done" /\ hist.search_failed # 0 =>
        /\ ~page.listed
        /\ hist.search_failed = 401 => page.error.text = "API key is invalid"
        /\ hist.search_failed = 402 => page.error.text = "API quota exceeded"
        /\ hist.search_failed = 429 => page.error.text = "Too many requests"
        /\ hist.search_failed \notin {401, 402, 429} =>
               page.error = [text |-> "Error from API", code |-> hist.search_failed]

\* the number of per-ingredient queries of the running aggregation that returned id
Hits(id) == Cardinality(hist.matched[id])

\* a recipe returned by more queries stands before one returned by fewer
RankedByHits(list) ==
    \A i, j \in DOMAIN list : Hits(list[i].id) > Hits(list[j].id) => i < j

\* the request is in, or has returned from, the OR search without a fallback
InOrSearch ==
    /\ form.search_type = "OR"
    /\ pc \in {"or_query", "or_detail", "done"}
    /\ ~found.fallback

\* the request is in, or has returned from, the fallback search
InFallbackSearch ==
    \/ pc = "fb_detail"
    \/ pc = "fb_query" /\ Position > 1
    \/ pc = "done" /\ found.fallback

\* C7: the list of the inclusive aggregation is ordered by non-increasing match count,
\* also after the cap, the filters and the enrichment
InclusiveOrdered ==
    /\ InOrSearch \/ InFallbackSearch => RankedByHits(recipes_with_info \o recipes)
    /\ InOrSearch => RankedByHits(found.all_recipes)
    /\ InFallbackSearch => RankedByHits(found.fallback_recipes)

\* an OR search returned a recipe matched by two queries before one matched by one
InclusiveOrderedWitness ==
    /\ pc = "done"
    /\ InOrSearch
    /\ Len(found.all_recipes) = 2
    /\ Hits(found.all_recipes[1].id) = 2
    /\ Hits(found.all_recipes[2].id) = 1
    /\ found.all_recipes[1].id > found.all_recipes[2].id

\* the distinct ingredients of the normalized list whose query returned id
MatchedIngredients(id) ==
    {Normalize(ingredients_text)[i] : i \in hist.matched[id]}

DistinctIngredients ==
    {Normalize(ingredients_text)[i] : i \in DOMAIN Normalize(ingredients_text)}

\* C8: the match count of a recipe id is the number of distinct ingredients whose
\* query returned it, at least 1 and at most the number of distinct ingredients, and
\* the match_count of every fallback result
MatchCountIsDistinctIngredients ==
    /\ pc \in {"or_query", "or_detail", "fb_detail"} \/ (pc = "fb_query" /\ Position > 1)
       => \A id \in DOMAIN ingredient_match_count :
              /\ ingredient_match_count[id] = Cardinality(MatchedIngredients(id))
              /\ ingredient_match_count[id] >= 1
              /\ ingredient_match_count[id] <= Cardinality(DistinctIngredients)
    /\ pc = "done" /\ found.fallback
       => \A i \in DOMAIN found.fallback_recipes :
              found.fallback_recipes[i].match_count
                  = Cardinality(MatchedIngredients(found.fallback_recipes[i].id))

NoDuplicates(list) == \A i, j \in DOMAIN list : list[i].id = list[j].id => i = j

\* C9: the list of the inclusive aggregation holds no recipe id twice
InclusiveNoDuplicates ==
    /\ InOrSearch \/ InFallbackSearch
       => NoDuplicates(all_recipes) /\ NoDuplicates(recipes_with_info \o recipes)
    /\ InOrSearch => NoDuplicates(found.all_recipes)
    /\ InFallbackSearch => NoDuplicates(found.fallback_recipes)

\* an OR search returned two recipes, one of them returned by two queries
InclusiveNoDuplicatesWitness ==
    /\ pc = "done"
    /\ InOrSearch
    /\ Len(found.all_recipes) = 2
    /\ \E i \in DOMAIN found.all_recipes : Hits(found.all_recipes[i].id) = 2

\* the text holds an entry that, trimmed, starts with the exclusion marker
HasExcluded(text) ==
    \E i \in DOMAIN Split(text) : StartsWithMarker(Strip(Split(text)[i]))

\* "e, m, #c"
ScenarioText == <<"e", ",", " ", "m", ",", " ", "#", "c">>

\* C10: no query sent to the API holds an entry that starts with '#'; "e, m, #c"
\* queries "e, m" in exact mode (and "e", "m" per ingredient)
NoExcludedInQueries ==
    /\ \A q \in hist.queries : ~HasExcluded(q)
    /\ form.ingredients = ScenarioText =>
           hist.queries \subseteq {<<"e", ",", " ", "m">>, <<"e">>, <<"m">>}

\* exact mode over "e, m, #c" sent its query, and the fallback its own
NoExcludedWitness ==
    /\ pc = "done"
    /\ form.ingredients = ScenarioText
    /\ form.search_type = "AND"
    /\ hist.queries = {<<"e", ",", " ", "m">>, <<"e">>, <<"m">>}

-----------------------------------------------------------------------------
(* Search: C11 .. C15 (under Spec) *)

\* C11: one call of get_recipes and one call of get_fallback_recipes issues at most
\* num detail fetches and returns at most num recipes, whatever the search API answers
DetailCallsCapped ==
    /\ hist.fetches <= NumCap
    /\ Len(found.all_recipes) <= NumCap
    /\ Len(found.fallback_recipes) <= NumCap

\* the recipes a completed submission produced: those of the primary search, or of
\* the fallback search that followed an empty primary search
Produced ==
    IF found.primary = "returned" /\ found.all_recipes # <<>> THEN found.all_recipes
    ELSE IF found.fallback THEN found.fallback_recipes
    ELSE <<>>

\* a search submission is being handled
Searching == pc \in {"or_query", "or_detail", "and_query", "and_detail",
                     "fb_query", "fb_detail"}

\* C12: once a search submission is under way the session holds no results of an
\* earlier search, and once it completes the cache holds exactly the reduced
\* projection of its own results, or is absent when it produced none or ended in an error
CacheIsOfThisSearch ==
    /\ Searching => ~session.cached
    /\ pc = "done" /\ form.search_type # "" =>
           IF Produced # <<>>
           THEN /\ session.cached
                /\ session.all_recipes
                       = [i \in 1..Len(Produced) |->
                            [id |-> Produced[i].id, image |-> Produced[i].image,
                             readyInMinutes |-> Produced[i].readyInMinutes,
                             cuisines |-> Produced[i].cuisines,
                             match_count |-> Produced[i].match_count]]
           ELSE ~session.cached

\* a submission ended in an error with no cache, after an earlier search of the
\* session had cached fallback results (its flag is still set)
CacheIsOfThisSearchWitness ==
    /\ pc = "done"
    /\ found.primary = "raised"
    /\ session.is_fallback
    /\ ~session.cached

\* the page presents its recipes as fallback results
ShownAsFallback ==
    page.error.text \in {"No exact matches found", "Showing recipes that share"}

\* C13: whenever the session caches a result set, its fallback flag is set if and
\* only if the fallback search produced that set, and a page that lists recipes
\* presents them as fallback results if and only if the fallback search produced them
FallbackFlagMatchesOrigin ==
    /\ session.cached => (session.is_fallback <=> session.origin = "fallback")
    /\ session.cached /\ pc = "done" /\ page.listed =>
           /\ page.recipes # <<>>
           /\ ShownAsFallback <=> session.origin = "fallback"

\* a back-navigation lists the cached results of a primary search as exact matches
FallbackFlagMatchesOriginWitness ==
    /\ pc = "done"
    /\ form = NoForm
    /\ page.listed
    /\ session.origin = "primary"
    /\ ~ShownAsFallback

\* the errors a failure of the external API is reported with
UpstreamErrors == {HttpErrorMessage(status) : status \in Statuses} \cup {FetchError}

\* C14: without the API key a search submission makes no call of the external API and
\* ends with the configuration error, which no failure of the API is reported with
MissingKeyIsConfigError ==
    /\ ~api_key =>
           /\ ~Searching
           /\ hist.queries = {} /\ hist.fetches = 0
           /\ pc = "done" /\ form.search_type # "" =>
                  ~page.listed /\ page.error = ConfigError /\ found.primary = "raised"
    /\ ConfigError \notin UpstreamErrors
    /\ api_key => page.error # ConfigError

\* a submission without the API key has ended
MissingKeyWitness ==
    /\ ~api_key
    /\ pc = "done"
    /\ form.search_type = "OR"
    /\ page.error = ConfigError

\* C15: every recipe an OR search returns whose detail fetch succeeded satisfies every
\* filter given: its ready time (if it has one) is within the bound, its cuisines hold
\* the requested cuisine, its dish types hold the requested dish type
OrFiltersHold ==
    pc = "done" /\ form.search_type = "OR" /\ found.primary = "returned" =>
        \A i \in DOMAIN found.all_recipes :
            LET r == found.all_recipes[i]
            IN  r.id \notin hist.detail_failed =>
                    /\ form.max_time # "" =>
                           \/ r.readyInMinutes = NoValue
                           \/ r.readyInMinutes <= IntOf(form.max_time)
                    /\ form.cuisine # "" => form.cuisine \in r.cuisines
                    /\ form.dish_type # "" => r.id \notin hist.dish_missed

====
